---------------------------- MODULE Spec2Model ----------------------------
(***************************************************************************)
(* A model of resumeV1.py: the form validation and normalisation of the    *)
(* "Process Input" block, generate_resume (prompt, language-model call,    *)
(* brace extraction with re.search, json.loads and the two exception       *)
(* handlers), the success/failure branch of the page, and create_pdf.      *)
(*                                                                         *)
(* Text is a sequence of characters.  The raw model response is written    *)
(* over the alphabet Chars, where three characters stand for whole JSON    *)
(* lexemes:                                                                *)
(*    "n"  the member  "name":"A"                                          *)
(*    "x"  the member  "extra":"Z"   (a field the output contract lacks)   *)
(*    "b"  the member  "summary":"<b>"  (a bold tag that is never closed)   *)
(*    "o"  the key     "summary":    (a value must follow: an object)      *)
(* and "{", "}", ",", "\n" are themselves and "p" is a character of prose. *)
(***************************************************************************)
EXTENDS Integers, Sequences, FiniteSets, TLC

VARIABLES pc, form, user_data, raw_response, json_str, exc, outcome,
          resume_content, llm_calls, st_errors, content, flowables,
          pdf_bytes, pdf_calls, download

vars == <<pc, form, user_data, raw_response, json_str, exc, outcome,
          resume_content, llm_calls, st_errors, content, flowables,
          pdf_bytes, pdf_calls, download>>

\* ------------------------------------------------------------- bounds
\* longest raw model response
MaxLen == 5
\* longest raw text typed into a form field
MaxRaw == 2
\* longest list held by a section of a document handed to create_pdf
MaxItems == 3

\* ------------------------------------------------------------- values
Max(S) == CHOOSE m \in S : \A k \in S : k <= m
Min(S) == CHOOSE m \in S : \A k \in S : m <= k

SeqsUpTo(S, n) == UNION {[1..k -> S] : k \in 0..n}

\* Python's None, and a local variable that was never assigned
None == [t |-> "None", v |-> <<>>]
Unbound == [t |-> "unbound", v |-> <<>>]

\* JSON values as json.loads builds them: str, list, dict, None
Str(s) == [t |-> "str", v |-> s]
List(l) == [t |-> "list", v |-> l]
Obj(d) == [t |-> "dict", v |-> d]

\* the empty dict {}
EmptyDoc == <<>>

\* a parser that keeps only the fields of the output contract
PutExpectedOnly(d, k, v) == IF k = "extra" THEN d ELSE (k :> v) @@ d

\* d[k] = v on a dict: a repeated key keeps the last value
Put(d, k, v) == (k :> v) @@ d

\* dict.get(key, default)
Get(d, k, default) == IF k \in DOMAIN d THEN d[k] ELSE default

\* bool(v): the truth value Python gives a value
Truthy(val) ==
    CASE val.t = "str" -> Len(val.v) > 0
      [] val.t = "list" -> Len(val.v) > 0
      [] val.t = "dict" -> DOMAIN val.v # {}
      [] OTHER -> FALSE

\* ------------------------------------------- re.search(r'\{.*\}', s, re.DOTALL)
Chars == {"{", "}", ",", "n", "x", "b", "o", "p", "\n"}

Texts == SeqsUpTo(Chars, MaxLen)

\* '.' under re.DOTALL: any character, the newline too
DotMatches(c) == TRUE

\* a lazy quantifier (.*?) tries the shortest repetition first
QuantifierLazy(ends) == Min(ends)

\* the greedy quantifier (.*) tries the longest repetition first
QuantifierPick(ends) == Max(ends)

\* positions at which '\}' can match after '\{' matched at i and '.*' ran on
CloseCandidates(s, i) ==
    {c \in (i + 1)..Len(s) :
        /\ s[c] = "}"
        /\ \A k \in (i + 1)..(c - 1) : DotMatches(s[k])}

\* the pattern tried at position i: the end of the match, 0 when it fails
MatchAt(s, i) ==
    IF s[i] # "{" \/ CloseCandidates(s, i) = {} THEN 0
    ELSE QuantifierPick(CloseCandidates(s, i))

\* re.search: the leftmost position at which the pattern matches
ReSearch(s) ==
    LET starts == {i \in 1..Len(s) : MatchAt(s, i) # 0}
    IN IF starts = {} THEN [found |-> FALSE, start |-> 0, end |-> 0]
       ELSE [found |-> TRUE, start |-> Min(starts),
             end |-> MatchAt(s, Min(starts))]

\* json_match.group(0)
Group0(s, m) == SubSeq(s, m.start, m.end)

\* ------------------------------------------------------------ json.loads
IsWs(c) == c = "\n"

\* the first position from i on that holds no whitespace
SkipWs(s, i) ==
    LET stops == {k \in i..Len(s) : ~IsWs(s[k])}
    IN IF stops = {} THEN Len(s) + 1 ELSE Min(stops)

ParseFail == [ok |-> FALSE, val |-> EmptyDoc, next |-> 0]

RECURSIVE ParseObject(_, _)
RECURSIVE ParseMembers(_, _, _)

\* after a member that ended before k: '}' closes, ',' asks for another member
AfterMember(s, k, acc) ==
    LET j == SkipWs(s, k)
    IN IF j > Len(s) THEN ParseFail
       ELSE IF s[j] = "}" THEN [ok |-> TRUE, val |-> acc, next |-> j + 1]
       ELSE IF s[j] = "," THEN ParseMembers(s, SkipWs(s, j + 1), acc)
       ELSE ParseFail

\* a member is expected at j
ParseMembers(s, j, acc) ==
    IF j > Len(s) THEN ParseFail
    ELSE IF s[j] = "n" THEN AfterMember(s, j + 1, Put(acc, "name", Str(<<"A">>)))
    ELSE IF s[j] = "x" THEN AfterMember(s, j + 1, Put(acc, "extra", Str(<<"Z">>)))
    ELSE IF s[j] = "b" THEN AfterMember(s, j + 1, Put(acc, "summary", Str(<<"<b>">>)))
    ELSE IF s[j] = "o" THEN
        LET k == SkipWs(s, j + 1)
        IN IF k > Len(s) \/ s[k] # "{" THEN ParseFail
           ELSE LET r == ParseObject(s, k)
                IN IF r.ok
                   THEN AfterMember(s, r.next, Put(acc, "summary", Obj(r.val)))
                   ELSE ParseFail
    ELSE ParseFail

\* s[i] is '{'
ParseObject(s, i) ==
    LET j == SkipWs(s, i + 1)
    IN IF j > Len(s) THEN ParseFail
       ELSE IF s[j] = "}" THEN [ok |-> TRUE, val |-> EmptyDoc, next |-> j + 1]
       ELSE ParseMembers(s, j, EmptyDoc)

\* json.loads(s): one value, whitespace around it, then the end of the text;
\* ok = FALSE stands for json.JSONDecodeError
JsonLoads(s) ==
    LET i == SkipWs(s, 1)
    IN IF i > Len(s) \/ s[i] # "{" THEN ParseFail
       ELSE LET r == ParseObject(s, i)
            IN IF r.ok /\ SkipWs(s, r.next) > Len(s) THEN r ELSE ParseFail

\* ------------------------------------------------- the form (Process Input)
FormChars == {"a", " ", "\n", ","}

RawTexts == SeqsUpTo(FormChars, MaxRaw)

\* st.text_input for the two required one-line fields
LineTexts == {<<>>, <<"a">>, <<" ">>}

IsSpace(c) == c = " " \/ c = "\n"

\* str.strip()
Strip(s) ==
    LET keep == {i \in 1..Len(s) : ~IsSpace(s[i])}
    IN IF keep = {} THEN <<>> ELSE SubSeq(s, Min(keep), Max(keep))

RECURSIVE Split(_, _)
\* str.split(sep): the pieces between the separators, empty pieces included
Split(s, sep) ==
    LET at == {i \in 1..Len(s) : s[i] = sep}
    IN IF at = {} THEN <<s>>
       ELSE <<SubSeq(s, 1, Min(at) - 1)>>
            \o Split(SubSeq(s, Min(at) + 1, Len(s)), sep)

\* [x.strip() for x in field.split(sep) if x.strip()]
Normalize(field, sep) ==
    LET pieces == Split(field, sep)
        stripped == [i \in 1..Len(pieces) |-> Strip(pieces[i])]
        NonEmpty(x) == Len(x) > 0
    IN SelectSeq(stripped, NonEmpty)

\* the required-fields test of the page: truthiness of the raw strings
RequiredFilled(f) ==
    /\ Len(f.name) > 0
    /\ Len(f.email) > 0
    /\ Len(f.experience) > 0
    /\ Len(f.skills) > 0

\* the user_data dict built from the form
BuildUserData(f) ==
    [name |-> f.name, email |-> f.email, phone |-> f.phone,
     location |-> f.location, summary |-> f.summary,
     experience |-> Normalize(f.experience, "\n"),
     education |-> Normalize(f.education, "\n"),
     skills |-> Normalize(f.skills, ","),
     certifications |-> Normalize(f.certifications, "\n")]

EmptyForm ==
    [name |-> <<>>, email |-> <<>>, phone |-> <<>>, location |-> <<>>,
     summary |-> <<>>, experience |-> <<>>, education |-> <<>>,
     skills |-> <<>>, certifications |-> <<>>]

NoUserData == BuildUserData(EmptyForm)

\* one filled form, for the runs that start at the call of generate_resume
SampleForm ==
    [EmptyForm EXCEPT !.name = <<"a">>, !.email = <<"a">>,
                      !.experience = <<"a">>, !.skills = <<"a">>]

\* st.error(message): the message kind and the text interpolated into it
Report(kind, text) == [kind |-> kind, text |-> text]

\* ------------------------------------------------------- create_pdf
\* section.capitalize()
Capitalize(section) ==
    CASE section = "summary" -> <<"Summary">>
      [] section = "experience" -> <<"Experience">>
      [] section = "education" -> <<"Education">>
      [] section = "skills" -> <<"Skills">>
      [] section = "certifications" -> <<"Certifications">>

sections == <<"summary", "experience", "education", "skills", "certifications">>

\* f"{value}": a str as it is, None as the text None, the rest by its repr
Format(val) ==
    CASE val.t = "str" -> val.v
      [] val.t = "None" -> <<"None">>
      [] OTHER -> <<"repr">>

\* the paragraph parser of the document engine accepts the text: "<b>" is a
\* tag that is opened and never closed
MarkupOk(s) == \A i \in 1..Len(s) : s[i] # "<b>"

\* Paragraph(text, style) can be constructed: text is a str the parser accepts
ParagraphOk(text) == text.t = "str" /\ MarkupOk(text.v)

Paragraph(text, style) ==
    [kind |-> "Paragraph", text |-> text, style |-> style, height |-> 0]

Spacer(height) ==
    [kind |-> "Spacer", text |-> Str(<<>>), style |-> "", height |-> height]

\* f"{email} | {phone} | {location}" with '' for an absent key
ContactInfo(c) ==
    Format(Get(c, "email", Str(<<>>))) \o <<" | ">>
    \o Format(Get(c, "phone", Str(<<>>))) \o <<" | ">>
    \o Format(Get(c, "location", Str(<<>>)))

\* the flowables of the header and of the contact line
HeaderFlowables(c) ==
    <<Paragraph(Get(c, "name", Str(<<>>)), "Heading1"), Spacer(12),
      Paragraph(Str(ContactInfo(c)), "Normal"), Spacer(24)>>

\* the flowables of one section: nothing when content.get(section) is falsy
SectionFlowables(c, section) ==
    IF ~Truthy(Get(c, section, None)) THEN <<>>
    ELSE <<Paragraph(Str(Capitalize(section)), "Heading2"), Spacer(12)>>
         \o (IF c[section].t = "list"
             THEN [i \in 1..Len(c[section].v) |->
                     Paragraph(Str(<<"bullet ">> \o Format(c[section].v[i])), "Normal")]
             ELSE <<Paragraph(c[section], "Normal")>>)
         \o <<Spacer(24)>>

RECURSIVE SectionsFrom(_, _)
\* the loop over sections, from the k-th on
SectionsFrom(c, k) ==
    IF k > Len(sections) THEN <<>>
    ELSE SectionFlowables(c, sections[k]) \o SectionsFrom(c, k + 1)

\* every flowable create_pdf constructs when none of them is refused
AllFlowables(c) == HeaderFlowables(c) \o SectionsFrom(c, 1)

\* the flowables whose construction raises
Refused(fl) ==
    {i \in 1..Len(fl) : fl[i].kind = "Paragraph" /\ ~ParagraphOk(fl[i].text)}

\* the exception the constructor raises for a text
ParagraphError(text) == IF text.t = "str" THEN "ValueError" ELSE "AttributeError"

\* buffer.getvalue() after doc.build(flowables)
Build(fl) == <<"%PDF">> \o [i \in 1..Len(fl) |-> fl[i].kind]

\* ------------------------------------------------------- the page's state
Pristine ==
    /\ raw_response = Unbound
    /\ json_str = Unbound
    /\ exc = "none"
    /\ outcome = "none"
    /\ resume_content = None
    /\ llm_calls = 0
    /\ st_errors = <<>>
    /\ content = EmptyDoc
    /\ flowables = <<>>
    /\ pdf_bytes = <<>>
    /\ pdf_calls = 0
    /\ download = <<>>

\* the script has run down to the form and waits for the submit button
Init ==
    /\ pc = "form"
    /\ form = EmptyForm
    /\ user_data = NoUserData
    /\ Pristine

\* st.form_submit_button pressed: the widgets return what was typed
Submit ==
    /\ pc = "form"
    /\ \E nm \in LineTexts, em \in LineTexts, ex \in RawTexts, sk \in RawTexts :
          form' = [EmptyForm EXCEPT !.name = nm, !.email = em,
                                    !.experience = ex, !.skills = sk]
    /\ pc' = "submitted"
    /\ UNCHANGED <<user_data, raw_response, json_str, exc, outcome,
                   resume_content, llm_calls, st_errors, content, flowables,
                   pdf_bytes, pdf_calls, download>>

\* if submitted: the required-fields test, then user_data and the call
ProcessInput ==
    /\ pc = "submitted"
    /\ IF ~RequiredFilled(form)
       THEN /\ st_errors' = Append(st_errors, Report("RequiredFields", <<>>))
            /\ pc' = "stopped"
            /\ UNCHANGED user_data
       ELSE /\ user_data' = BuildUserData(form)
            /\ pc' = "generate"
            /\ UNCHANGED st_errors
    /\ UNCHANGED <<form, raw_response, json_str, exc, outcome, resume_content,
                   llm_calls, content, flowables, pdf_bytes, pdf_calls, download>>

\* --------------------------------------------------------- generate_resume
\* what llm.invoke raises: a transport error of the provider, or the
\* json.JSONDecodeError of a client that could not decode the provider's reply
InvokeErrors == {"APIConnectionError", "JSONDecodeError"}

\* the except clause that takes an exception raised in the try block
HandlerOf(e) == IF e = "JSONDecodeError" THEN "json" ELSE "generic"

\* a failure handler that calls the model again instead of returning
RetryGenerate == "generate"

\* where control is after a return None of generate_resume
ReturnNone == "returned"

\* a message that shows the span that failed to parse
JsonErrorSpan(raw, span) == span

\* the text the JSON-parsing message interpolates
JsonErrorText(raw, span) == raw

\* llm.invoke raises inside the try block
LlmRaises ==
    /\ pc = "generate"
    /\ llm_calls' = llm_calls + 1
    /\ \E e \in InvokeErrors : exc' = e
    /\ pc' = "except"
    /\ UNCHANGED <<form, user_data, raw_response, json_str, outcome,
                   resume_content, st_errors, content, flowables, pdf_bytes,
                   pdf_calls, download>>

\* llm.invoke returns; raw_response = response.content
LlmReturns ==
    /\ pc = "generate"
    /\ llm_calls' = llm_calls + 1
    /\ \E text \in Texts : raw_response' = Str(text)
    /\ pc' = "extract"
    /\ UNCHANGED <<form, user_data, json_str, exc, outcome, resume_content,
                   st_errors, content, flowables, pdf_bytes, pdf_calls, download>>

\* re.search, then json.loads of the match or the no-JSON message
Extract ==
    /\ pc = "extract"
    /\ LET m == ReSearch(raw_response.v)
       IN IF m.found
          THEN LET span == Group0(raw_response.v, m)
                   r == JsonLoads(span)
               IN /\ json_str' = Str(span)
                  /\ IF r.ok
                     THEN /\ resume_content' = Obj(r.val)
                          /\ outcome' = "ResumeDocument"
                          /\ pc' = "returned"
                          /\ exc' = exc
                     ELSE /\ exc' = "JSONDecodeError"
                          /\ pc' = "except"
                          /\ UNCHANGED <<resume_content, outcome>>
                  /\ UNCHANGED st_errors
          ELSE /\ st_errors' = Append(st_errors,
                                      Report("NoJsonFound", raw_response.v))
               /\ outcome' = "NoJsonFound"
               /\ pc' = ReturnNone
               /\ UNCHANGED <<json_str, resume_content, exc>>
    /\ UNCHANGED <<form, user_data, raw_response, llm_calls, content,
                   flowables, pdf_bytes, pdf_calls, download>>

\* the except clauses; the first reads raw_response, which is unassigned when
\* the exception left llm.invoke: the read raises UnboundLocalError, and an
\* exception raised inside an except clause leaves the function
Except ==
    /\ pc = "except"
    /\ IF HandlerOf(exc) = "json"
       THEN IF raw_response = Unbound
            THEN /\ exc' = "UnboundLocalError"
                 /\ outcome' = "Escaped"
                 /\ pc' = "crashed"
                 /\ UNCHANGED st_errors
            ELSE /\ st_errors' = Append(st_errors,
                        Report("JsonDecodeError",
                               JsonErrorText(raw_response.v, json_str.v)))
                 /\ outcome' = "JsonDecodeError"
                 /\ pc' = ReturnNone
                 /\ exc' = "none"
       ELSE /\ st_errors' = Append(st_errors,
                                   Report("ModelInvocationError", <<exc>>))
            /\ outcome' = "ModelInvocationError"
            /\ pc' = ReturnNone
            /\ exc' = "none"
    /\ UNCHANGED <<form, user_data, raw_response, json_str, resume_content,
                   llm_calls, content, flowables, pdf_bytes, pdf_calls, download>>

\* --------------------------------------------- the page after the call
\* "### " + resume_content.get("name", "") needs a str
PreviewOk(d) == Get(d, "name", Str(<<>>)).t = "str"

\* if resume_content: the preview, else the failure message
PageBranch ==
    /\ pc = "returned"
    /\ IF Truthy(resume_content)
       THEN IF PreviewOk(resume_content.v)
            THEN /\ content' = resume_content.v
                 /\ pc' = "create_pdf"
                 /\ UNCHANGED <<st_errors, exc>>
            ELSE /\ exc' = "TypeError"
                 /\ pc' = "crashed"
                 /\ UNCHANGED <<st_errors, content>>
       ELSE /\ st_errors' = Append(st_errors, Report("FailedToGenerate", <<>>))
            /\ pc' = "done"
            /\ UNCHANGED <<content, exc>>
    /\ UNCHANGED <<form, user_data, raw_response, json_str, outcome,
                   resume_content, llm_calls, flowables, pdf_bytes, pdf_calls,
                   download>>

\* pdf_bytes = create_pdf(resume_content): the flowables are constructed in
\* order and the first refused one raises out of create_pdf and of the script
CreatePdf ==
    /\ pc = "create_pdf"
    /\ pdf_calls' = pdf_calls + 1
    /\ LET fl == AllFlowables(content)
           bad == Refused(fl)
       IN IF bad = {}
          THEN /\ flowables' = fl
               /\ pdf_bytes' = Build(fl)
               /\ pc' = "download"
               /\ exc' = exc
          ELSE /\ flowables' = SubSeq(fl, 1, Min(bad) - 1)
               /\ exc' = ParagraphError(fl[Min(bad)].text)
               /\ pc' = "crashed"
               /\ UNCHANGED pdf_bytes
    /\ UNCHANGED <<form, user_data, raw_response, json_str, outcome,
                   resume_content, llm_calls, st_errors, content, download>>

\* name.replace(' ', '_')
Underscored(nm) == [i \in 1..Len(nm) |-> IF nm[i] = " " THEN "_" ELSE nm[i]]

\* st.success and st.download_button
Download ==
    /\ pc = "download"
    /\ download' = [data |-> pdf_bytes,
                    file_name |-> Underscored(form.name) \o <<"_Resume.pdf">>]
    /\ pc' = "done"
    /\ UNCHANGED <<form, user_data, raw_response, json_str, exc, outcome,
                   resume_content, llm_calls, st_errors, content, flowables,
                   pdf_bytes, pdf_calls>>

Next ==
    \/ Submit
    \/ ProcessInput
    \/ LlmRaises
    \/ LlmReturns
    \/ Extract
    \/ Except
    \/ PageBranch
    \/ CreatePdf
    \/ Download

\* one run of the script from the form to its end
Spec == Init /\ [][Next]_vars

\* ---- the form alone: from the submit button to the call of generate_resume
NextForm == Submit \/ ProcessInput

SpecForm == Init /\ [][NextForm]_vars

\* ---- from the call of generate_resume to the end of the script
InitGenerate ==
    /\ pc = "generate"
    /\ form = SampleForm
    /\ user_data = BuildUserData(SampleForm)
    /\ Pristine

NextGenerate ==
    \/ LlmRaises
    \/ LlmReturns
    \/ Extract
    \/ Except
    \/ PageBranch
    \/ CreatePdf
    \/ Download

SpecGenerate == InitGenerate /\ [][NextGenerate]_vars

\* ---- create_pdf alone, on the documents a parsed JSON object can be
\* a key the object does not have
Absent == [t |-> "absent", v |-> <<>>]

With(d, k, val) == IF val.t = "absent" THEN d ELSE Put(d, k, val)

ItemTexts == {Str(<<"a">>), Str(<<"<b>">>)}

NameChoices == {Absent, Str(<<"A">>), Str(<<"<b>">>), None}
EmailChoices == {Absent, Str(<<"e">>)}
PhoneChoices == {Absent, Str(<<"p">>)}
LocationChoices == {Absent, Str(<<"l">>)}
SummaryChoices ==
    {Absent, Str(<<>>), Str(<<"S">>), Str(<<"<b>">>),
     Obj(Put(EmptyDoc, "name", Str(<<"A">>)))}
ExperienceChoices == {Absent} \cup {List(l) : l \in SeqsUpTo(ItemTexts, MaxItems)}
EducationChoices == {Absent, List(<<>>), List(<<Str(<<"a">>)>>)}
SkillsChoices == {Absent, Str(<<"k">>)}
CertificationsChoices == {Absent, List(<<Str(<<"c">>)>>)}

Docs ==
    {With(With(With(With(With(With(With(With(With(EmptyDoc,
        "name", nm), "email", em), "phone", ph), "location", lo),
        "summary", su), "experience", ex), "education", ed),
        "skills", sk), "certifications", ce) :
       nm \in NameChoices, em \in EmailChoices, ph \in PhoneChoices,
       lo \in LocationChoices, su \in SummaryChoices,
       ex \in ExperienceChoices, ed \in EducationChoices,
       sk \in SkillsChoices, ce \in CertificationsChoices}

InitRender ==
    /\ pc = "create_pdf"
    /\ form = SampleForm
    /\ user_data = BuildUserData(SampleForm)
    /\ raw_response = Unbound
    /\ json_str = Unbound
    /\ exc = "none"
    /\ outcome = "ResumeDocument"
    /\ llm_calls = 1
    /\ st_errors = <<>>
    /\ \E d \in Docs : content = d /\ resume_content = Obj(d)
    /\ flowables = <<>>
    /\ pdf_bytes = <<>>
    /\ pdf_calls = 0
    /\ download = <<>>

NextRender == CreatePdf \/ Download

SpecRender == InitRender /\ [][NextRender]_vars

\* =================================================================== claims
Returned == pc \in {"returned", "create_pdf", "download", "done", "crashed"}

FailureKinds == {"ModelInvocationError", "NoJsonFound", "JsonDecodeError"}

\* the messages generate_resume itself reports
GenReports ==
    LET IsGen(r) == r.kind \in FailureKinds
    IN SelectSeq(st_errors, IsGen)

\* C1: generate_resume ends with a ResumeDocument or one of the three failure
\* kinds, whatever the model does; no exception leaves it.
C1_FourOutcomes ==
    Returned => outcome \in {"ResumeDocument"} \cup FailureKinds

\* the runs in which llm.invoke does not raise json.JSONDecodeError do end
\* in one of the four outcomes
C1_UnlessInvokeDecodeError ==
    (Returned /\ exc # "UnboundLocalError") =>
        outcome \in {"ResumeDocument"} \cup FailureKinds

\* some '{' of the text has a '}' somewhere after it
HasPair(s) == \E i, j \in 1..Len(s) : i < j /\ s[i] = "{" /\ s[j] = "}"

FirstOpen(s) == Min({i \in 1..Len(s) : s[i] = "{"})
LastClose(s) == Max({j \in 1..Len(s) : s[j] = "}"})

\* C2: the span handed to the JSON parser is the text from its first '{'
\* through its last '}', newlines included; a text without a '{' that has a
\* '}' after it is not parsed and ends as NoJsonFound with the full raw text.
C2_SpanFirstToLast ==
    (raw_response # Unbound /\ pc # "extract") =>
        IF HasPair(raw_response.v)
        THEN json_str = Str(SubSeq(raw_response.v, FirstOpen(raw_response.v),
                                   LastClose(raw_response.v)))
        ELSE /\ json_str = Unbound
             /\ outcome = "NoJsonFound"
             /\ st_errors[1] = Report("NoJsonFound", raw_response.v)

\* a span with a newline and an inner '}' in it, cut out of a longer text
C2_Witness ==
    /\ json_str # Unbound
    /\ Len(json_str.v) < Len(raw_response.v)
    /\ \E k \in 1..Len(json_str.v) : json_str.v[k] = "\n"
    /\ \E k \in 1..(Len(json_str.v) - 1) : json_str.v[k] = "}"

ProseChars == {"p", "\n", ",", "{", "}"}

Prose(t) == \A k \in 1..Len(t) : t[k] \in ProseChars

\* C4 as stated: a valid JSON object with prose or code fences before and
\* after it is returned as the ResumeDocument, whatever the prose holds.
C4_AnyProseIgnored ==
    (raw_response # Unbound /\ Returned) =>
        \A i, j \in 1..Len(raw_response.v) :
            ( /\ i < j
              /\ raw_response.v[i] = "{"
              /\ raw_response.v[j] = "}"
              /\ JsonLoads(SubSeq(raw_response.v, i, j)).ok
              /\ Prose(SubSeq(raw_response.v, 1, i - 1))
              /\ Prose(SubSeq(raw_response.v, j + 1, Len(raw_response.v))) )
            => /\ outcome = "ResumeDocument"
               /\ resume_content = Obj(JsonLoads(SubSeq(raw_response.v, i, j)).val)

\* C4, amended: a valid JSON object with text around it that holds no '{'
\* before it and no '}' after it is returned as it is: its fields keep their
\* values, no field is added, an unexpected field stays.
C4_ObjectReturned ==
    (raw_response # Unbound /\ pc # "extract") =>
        /\ \A i, j \in 1..Len(raw_response.v) :
              ( /\ i < j
                /\ raw_response.v[i] = "{"
                /\ raw_response.v[j] = "}"
                /\ JsonLoads(SubSeq(raw_response.v, i, j)).ok
                /\ \A k \in 1..(i - 1) : raw_response.v[k] # "{"
                /\ \A k \in (j + 1)..Len(raw_response.v) : raw_response.v[k] # "}" )
              => /\ outcome = "ResumeDocument"
                 /\ resume_content = Obj(JsonLoads(SubSeq(raw_response.v, i, j)).val)
        /\ raw_response = Str(<<"p", "{", "x", "}", "p">>)
              => resume_content = Obj("extra" :> Str(<<"Z">>))
        /\ raw_response = Str(<<"{", "n", ",", "x", "}">>)
              => resume_content = Obj(("name" :> Str(<<"A">>))
                                      @@ ("extra" :> Str(<<"Z">>)))
        /\ raw_response = Str(<<"\n", "{", "n", "}", "\n">>)
              => resume_content = Obj("name" :> Str(<<"A">>))

\* prose before and after an object that has only the unexpected field
C4_Witness ==
    /\ outcome = "ResumeDocument"
    /\ raw_response = Str(<<"p", "{", "x", "}", "p">>)
    /\ DOMAIN resume_content.v = {"extra"}

\* C5: one call of generate_resume invokes the model exactly once; after a
\* failure of any of the three kinds the model is not invoked again and the
\* failure is reported once.
C5_InvokedOnce ==
    /\ llm_calls <= 1
    /\ (pc \in {"extract", "except"} \/ outcome # "none") => llm_calls = 1
    /\ outcome \in FailureKinds =>
          /\ Len(GenReports) = 1
          /\ GenReports[1].kind = outcome
    /\ outcome = "ResumeDocument" => GenReports = <<>>

\* the script has ended after a failure of the parse
C5_Witness ==
    /\ pc = "done"
    /\ outcome = "JsonDecodeError"
    /\ llm_calls = 1

\* the contact fields are strings and the sections strings or lists of
\* strings, wherever the document has them
Typed(c) ==
    /\ \A k \in DOMAIN c \cap {"name", "email", "phone", "location"} :
          c[k].t = "str"
    /\ \A k \in DOMAIN c \cap {"summary", "experience", "education",
                                "skills", "certifications"} :
          \/ c[k].t = "str"
          \/ c[k].t = "list" /\ \A i \in 1..Len(c[k].v) : c[k].v[i].t = "str"

\* the paragraphs among the flowables, in their order
Paragraphs(fl) ==
    LET IsParagraph(f) == f.kind = "Paragraph"
    IN SelectSeq(fl, IsParagraph)

\* what a section is to emit: nothing when it is absent, '' or []; else its
\* heading, then a bulleted line per element or the one paragraph
ExpectedBlock(c, section, heading) ==
    IF section \notin DOMAIN c \/ c[section].v = <<>> THEN <<>>
    ELSE <<Paragraph(Str(heading), "Heading2")>>
         \o (IF c[section].t = "list"
             THEN [i \in 1..Len(c[section].v) |->
                     Paragraph(Str(<<"bullet ">> \o c[section].v[i].v), "Normal")]
             ELSE <<Paragraph(Str(c[section].v), "Normal")>>)

ExpectedBlocks(c) ==
    ExpectedBlock(c, "summary", <<"Summary">>)
    \o ExpectedBlock(c, "experience", <<"Experience">>)
    \o ExpectedBlock(c, "education", <<"Education">>)
    \o ExpectedBlock(c, "skills", <<"Skills">>)
    \o ExpectedBlock(c, "certifications", <<"Certifications">>)

\* C6: after the contact line create_pdf emits, for summary, experience,
\* education, skills, certifications in this order, a heading exactly for the
\* sections that are present and non-empty, followed by one bulleted line
\* per list element or by the one paragraph of a scalar.
C6_SectionBlocks ==
    (pdf_calls = 1 /\ Typed(content)) =>
        SubSeq(Paragraphs(flowables), 3, Len(Paragraphs(flowables)))
            = ExpectedBlocks(content)

\* the same, for the documents none of whose paragraphs the engine refuses
C6_WhenAccepted ==
    (pdf_calls = 1 /\ Typed(content) /\ pc # "crashed") =>
        SubSeq(Paragraphs(flowables), 3, Len(Paragraphs(flowables)))
            = ExpectedBlocks(content)

TextOf(c, k) == IF k \in DOMAIN c THEN c[k].v ELSE <<>>

\* C7: create_pdf emits the title with the name ('' when absent), then one
\* contact line email | phone | location with '' for an absent field, for
\* every document, the empty one too, and returns a non-empty byte stream.
C7_TitleAndContact ==
    (pdf_calls = 1 /\ Typed(content)) =>
        /\ Len(flowables) >= 4
        /\ flowables[1] = Paragraph(Str(TextOf(content, "name")), "Heading1")
        /\ flowables[3] = Paragraph(Str(TextOf(content, "email") \o <<" | ">>
                                        \o TextOf(content, "phone") \o <<" | ">>
                                        \o TextOf(content, "location")), "Normal")
        /\ pdf_bytes # <<>>

\* the same, for the documents none of whose paragraphs the engine refuses
C7_WhenAccepted ==
    (pdf_calls = 1 /\ Typed(content) /\ pc # "crashed") =>
        /\ Len(flowables) >= 4
        /\ flowables[1] = Paragraph(Str(TextOf(content, "name")), "Heading1")
        /\ flowables[3] = Paragraph(Str(TextOf(content, "email") \o <<" | ">>
                                        \o TextOf(content, "phone") \o <<" | ">>
                                        \o TextOf(content, "location")), "Normal")
        /\ pdf_bytes # <<>>

\* C8: create_pdf completes on every document generate_resume can return;
\* content the engine refuses becomes a reported failure, never an exception
\* that leaves the script.
C8_RendererNeverRaises ==
    pdf_calls = 1 =>
        \/ pdf_bytes # <<>>
        \/ pc # "crashed" /\ st_errors # <<>>

\* C9: in one submission create_pdf is called, on the returned document, and
\* its bytes offered for download exactly when generate_resume returned a
\* ResumeDocument.
C9_RenderIffDocument ==
    pc = "done" =>
        (outcome = "ResumeDocument" <=>
            /\ pdf_calls = 1
            /\ content = resume_content.v
            /\ download # <<>>)

\* C10: generate_resume is called only with a record whose name, email,
\* normalised experience and normalised skills are all non-empty.
C10_EligibleRecord ==
    pc = "generate" =>
        /\ Len(user_data.name) > 0
        /\ Len(user_data.email) > 0
        /\ Len(user_data.experience) > 0
        /\ Len(user_data.skills) > 0

=============================================================================
